---- MODULE Spec2Model ----
(***************************************************************************)
(* Model of the LDM 3D-printing Grasshopper scripts:                        *)
(*   - PrintingPathOptimizer (v240811/01_Printing_Path_Optimizer_240811.py) *)
(*   - Marvin Gcode - LDM    (v241001/02_G_Code_Generation_LDM_241001.py)   *)
(*                                                                         *)
(* SpecOpt runs the optimizer script (group_curves_by_layer,               *)
(* sort_curves_within_layers, sort_curves_nearest_neighbor,                *)
(* optimize_path_across_layers) on every input drawn in InitOpt.           *)
(* SpecGen runs generate_gcode on every input drawn in InitGen.            *)
(* SpecV240811 runs the generate_gcode of the earlier version              *)
(* (v240811/G_Code_Generation_240811.py) on every input drawn in           *)
(* InitV240811.                                                            *)
(***************************************************************************)
EXTENDS Integers, Sequences, FiniteSets, TLC

VARIABLES
    \* ---- PrintingPathOptimizer ----
    curves,          \* input list of curves (Grasshopper input `curves`)
    start_point,     \* `start_point`, rebound by sort_curves_within_layers
    layers,          \* dict built by group_curves_by_layer: key -> list
    sorted_layers,   \* dict built by sort_curves_within_layers (insertion order)
    unvisited,       \* local of sort_curves_nearest_neighbor
    sorted_curves,   \* local of sort_curves_nearest_neighbor
    current_point,   \* local of sort_curves_nearest_neighbor
    layer_start,     \* the start_point argument of the running sort call
    optimized_path,  \* output of optimize_path_across_layers
    opc,             \* position in the optimizer script
    \* ---- generate_gcode (v241001): parameters ----
    printing_path, nozzle_diameter, printing_speed, m1_flux, layer_h,
    e_absolute, retract, flux_mode, m2_flux_start, m2_flux_end,
    \* ---- generate_gcode (v241001): locals ----
    all_curves,              \* the valid curves, in input order
    num_layers, min_z,
    speed_mode_detail, flux_mode_detail,
    flux_start, flux_end,    \* m2_flux_start / m2_flux_end as rebound (lines 149-163)
    curves_by_layer,         \* layer_index -> list of curve_index
    total_extruded_volume, total_printing_distance,
    previous_point, gcode, printing_points,
    extrusion_amount, current_speed,
    layer_pos,               \* position of the layer loop in sorted(keys)
    curve_pos,               \* position of the curve loop in the layer's list
    points,                  \* the sample point list last built
    result,                  \* what the call returned
    gpc,                     \* position in generate_gcode
    \* ---- generate_gcode (v240811): what it has beyond the names above ----
    printing_flux,           \* the parameter, as the list of line 71
    total_extrusion_distance, total_travel_distance

optVars == <<curves, start_point, layers, sorted_layers, unvisited,
             sorted_curves, current_point, layer_start, optimized_path, opc>>

genParams == <<printing_path, nozzle_diameter, printing_speed, m1_flux, layer_h,
               e_absolute, retract, flux_mode, m2_flux_start, m2_flux_end>>

genSetup == <<all_curves, num_layers, min_z, speed_mode_detail, flux_mode_detail,
              flux_start, flux_end>>

genLocals == <<curves_by_layer, total_extruded_volume, total_printing_distance,
               previous_point, gcode, printing_points, extrusion_amount,
               current_speed, layer_pos, curve_pos, points, result, gpc>>

v240811Vars == <<printing_flux, total_extrusion_distance, total_travel_distance>>

genVars == <<genParams, genSetup, genLocals, v240811Vars>>

vars == <<optVars, genVars>>

\* the value of an unset (None) point
NoPoint == << >>

\* outside a run of the optimizer script its state is at rest, and so is
\* generate_gcode's outside a call of it
OptIdle ==
    /\ curves = << >> /\ start_point = NoPoint /\ layers = << >>
    /\ sorted_layers = << >> /\ unvisited = << >> /\ sorted_curves = << >>
    /\ current_point = NoPoint /\ layer_start = NoPoint
    /\ optimized_path = << >> /\ opc = "idle"

GenIdle ==
    /\ printing_path = << >> /\ nozzle_diameter = 0 /\ printing_speed = << >>
    /\ m1_flux = << >> /\ layer_h = 0 /\ e_absolute = FALSE /\ retract = FALSE
    /\ flux_mode = 0 /\ m2_flux_start = << >> /\ m2_flux_end = << >>
    /\ all_curves = << >> /\ num_layers = 0 /\ min_z = 0
    /\ speed_mode_detail = "" /\ flux_mode_detail = ""
    /\ flux_start = << >> /\ flux_end = << >>
    /\ curves_by_layer = << >>
    /\ total_extruded_volume = 0 /\ total_printing_distance = 0
    /\ previous_point = NoPoint /\ gcode = << >> /\ printing_points = << >>
    /\ extrusion_amount = 0 /\ current_speed = 0
    /\ layer_pos = 0 /\ curve_pos = 0 /\ points = << >>
    /\ result = << >> /\ gpc = "idle"
    /\ printing_flux = << >>
    /\ total_extrusion_distance = 0 /\ total_travel_distance = 0

(***************************************************************************)
(* Bounds of the optimizer inputs.                                         *)
(***************************************************************************)
MaxOptCurves == 3

(***************************************************************************)
(* Geometry.  A point is <<x, y, z>> on an integer grid whose unit is      *)
(* 0.004 mm, so that the midpoint Z of a curve is a multiple of 0.002 mm   *)
(* and never falls half-way between two multiples of the 0.01 tolerance.   *)
(***************************************************************************)
Min(a, b) == IF a < b THEN a ELSE b
Max(a, b) == IF a > b THEN a ELSE b

\* Point3d.DistanceTo, as the squared Euclidean distance: every use in the
\* optimizer only compares two distances, and squaring preserves the order.
DistanceTo(p, q) ==
    (p[1] - q[1]) * (p[1] - q[1]) + (p[2] - q[2]) * (p[2] - q[2])
        + (p[3] - q[3]) * (p[3] - q[3])

\* Curve.Reverse(): swaps the roles of start and end, in place (same object).
Reverse(c) == [c EXCEPT !.s = c.e, !.e = c.s, !.rev = ~c.rev]

\* list.pop(i) leaves the list without its i-th element.
PopMutLast(seq, i) == SubSeq(seq, 1, Len(seq) - 1)
Pop(seq, i) == SubSeq(seq, 1, i - 1) \o SubSeq(seq, i + 1, Len(seq))

\* group_curves_by_layer: z_value = round((zs + ze) / 2, 2);
\* layer_key = round(z_value / tolerance) * tolerance, tolerance = 0.01.
\* In grid units the midpoint is 2 * (zs + ze) thousandths of a mm; the key is
\* kept as the integer number of tolerances (nearest multiple of 10
\* thousandths; no ties arise on this grid).
LayerKey(c) == (2 * (c.s[3] + c.e[3]) + 5) \div 10

\* the comparison that sets `flip` in the scan (lines 40 and 58)
FlipMutInverted(d_start, d_end) == d_start < d_end
Flip(d_start, d_end) == d_start > d_end

\* The scan loops of sort_curves_nearest_neighbor (lines 32-40 and 50-58).
\* best.index = 0 stands for closest_curve_index = None with
\* closest_distance = inf, below which every finite distance lies.
RECURSIVE ScanMutLastWins(_, _, _, _)
ScanMutLastWins(unv, ref, i, best) ==
    IF i > Len(unv) THEN best
    ELSE LET d_start == DistanceTo(ref, unv[i].s)
             d_end   == DistanceTo(ref, unv[i].e)
             m       == Min(d_start, d_end)
         IN  IF best.index = 0 \/ m <= best.distance
             THEN ScanMutLastWins(unv, ref, i + 1,
                       [index |-> i, distance |-> m, flip |-> Flip(d_start, d_end)])
             ELSE ScanMutLastWins(unv, ref, i + 1, best)
RECURSIVE Scan(_, _, _, _)
Scan(unv, ref, i, best) ==
    IF i > Len(unv) THEN best
    ELSE LET d_start == DistanceTo(ref, unv[i].s)
             d_end   == DistanceTo(ref, unv[i].e)
             m       == Min(d_start, d_end)
         IN  IF best.index = 0 \/ m < best.distance
             THEN Scan(unv, ref, i + 1,
                       [index |-> i, distance |-> m, flip |-> Flip(d_start, d_end)])
             ELSE Scan(unv, ref, i + 1, best)

Closest(unv, ref) == Scan(unv, ref, 1, [index |-> 0, distance |-> 0, flip |-> FALSE])

\* the curve appended to sorted_curves: flipped if needed
Chosen(unv, ref) ==
    LET b == Closest(unv, ref)
    IN  IF b.flip THEN Reverse(unv[b.index]) ELSE unv[b.index]

\* keys of a dict in ascending order: sorted(curves_by_layer.items())
RECURSIVE SortedKeysMutDescending(_)
SortedKeysMutDescending(S) ==
    IF S = {} THEN << >>
    ELSE LET k == CHOOSE x \in S : \A y \in S : x >= y
         IN  <<k>> \o SortedKeysMutDescending(S \ {k})
RECURSIVE SortedKeys(_)
SortedKeys(S) ==
    IF S = {} THEN << >>
    ELSE LET k == CHOOSE x \in S : \A y \in S : x <= y
         IN  <<k>> \o SortedKeys(S \ {k})

\* optimize_path_across_layers: extend the path by every layer, in the dict's
\* iteration (insertion) order.
OptimizePathMutAssign(sl) ==
    IF sl = << >> THEN << >> ELSE sl[Len(sl)].tour
RECURSIVE OptimizePath(_)
OptimizePath(sl) ==
    IF sl = << >> THEN << >>
    ELSE OptimizePath(SubSeq(sl, 1, Len(sl) - 1)) \o sl[Len(sl)].tour

(***************************************************************************)
(* Inputs of the optimizer.                                                *)
(***************************************************************************)
OptGeoms ==
    { [s |-> <<0, 0, 0>>, e |-> <<2, 0, 0>>],
      [s |-> <<2, 0, 0>>, e |-> <<0, 0, 0>>],
      [s |-> <<1, 0, 1>>, e |-> <<1, 0, 1>>],   \* closed curve
      [s |-> <<2, 1, 1>>, e |-> <<1, 0, 1>>],
      [s |-> <<0, 0, 0>>, e |-> <<1, 0, 2>>],   \* sloped curve
      [s |-> <<0, 0, 2>>, e |-> <<1, 0, 2>>],
      [s |-> <<2, 0, 2>>, e |-> <<0, 0, 2>>],
      [s |-> <<1, 0, 3>>, e |-> <<2, 1, 3>>] }

OptStarts == { <<0, 0, 0>>, <<2, 0, 2>>, <<1, 1, 1>> }

\* the curve objects: identity is the position in the input list
MkCurves(geoms) ==
    [i \in 1..Len(geoms) |->
        [id |-> i, s |-> geoms[i].s, e |-> geoms[i].e, rev |-> FALSE]]

SeqsUpTo(S, n) == UNION { [1..k -> S] : k \in 0..n }

InitOpt ==
    /\ GenIdle
    /\ \E g \in SeqsUpTo(OptGeoms, MaxOptCurves) : curves = MkCurves(g)
    /\ start_point \in OptStarts
    /\ layers = << >>
    /\ sorted_layers = << >>
    /\ unvisited = << >>
    /\ sorted_curves = << >>
    /\ current_point = <<0, 0, 0>>
    /\ layer_start = <<0, 0, 0>>
    /\ optimized_path = << >>
    /\ opc = "group"

\* group_curves_by_layer(curves): every curve is appended to the list of its key
GroupCurvesByLayer ==
    /\ UNCHANGED genVars
    /\ opc = "group"
    /\ layers' = [k \in { LayerKey(curves[i]) : i \in 1..Len(curves) } |->
                    SelectSeq(curves, LAMBDA c : LayerKey(c) = k)]
    /\ opc' = "layer"
    /\ UNCHANGED <<curves, start_point, sorted_layers, unvisited, sorted_curves,
                   current_point, layer_start, optimized_path>>

\* sort_curves_within_layers, one loop iteration begun: the next key in
\* ascending order, and the call of sort_curves_nearest_neighbor on its list
\* up to the first pick (lines 28-46).
SortFirst ==
    /\ UNCHANGED genVars
    /\ opc = "layer"
    /\ Len(sorted_layers) < Cardinality(DOMAIN layers)
    /\ LET z   == SortedKeys(DOMAIN layers)[Len(sorted_layers) + 1]
           unv == layers[z]
           b   == Closest(unv, start_point)
           c   == Chosen(unv, start_point)
       IN  /\ layer_start' = start_point
           /\ sorted_curves' = <<c>>
           /\ unvisited' = Pop(unv, b.index)
           /\ current_point' = c.e
    /\ opc' = "nn"
    /\ UNCHANGED <<curves, start_point, layers, sorted_layers, optimized_path>>

\* one iteration of `while unvisited` (lines 49-66)
SortNext ==
    /\ UNCHANGED genVars
    /\ opc = "nn"
    /\ unvisited # << >>
    /\ LET b == Closest(unvisited, current_point)
           c == Chosen(unvisited, current_point)
       IN  /\ sorted_curves' = Append(sorted_curves, c)
           /\ unvisited' = Pop(unvisited, b.index)
           /\ current_point' = c.e
    /\ UNCHANGED <<curves, start_point, layers, sorted_layers, layer_start,
                   optimized_path, opc>>

\* the sort call returns; sort_curves_within_layers stores the tour and moves
\* start_point to the end of its last curve (lines 83-86)
SortReturnMutKeepStart ==
    /\ UNCHANGED genVars
    /\ opc = "nn"
    /\ unvisited = << >>
    /\ LET z == SortedKeys(DOMAIN layers)[Len(sorted_layers) + 1]
       IN  sorted_layers' = Append(sorted_layers, [key |-> z, tour |-> sorted_curves])
    /\ opc' = "layer"
    /\ UNCHANGED <<curves, start_point, layers, unvisited, sorted_curves, current_point,
                   layer_start, optimized_path>>
SortReturn ==
    /\ UNCHANGED genVars
    /\ opc = "nn"
    /\ unvisited = << >>
    /\ LET z == SortedKeys(DOMAIN layers)[Len(sorted_layers) + 1]
       IN  sorted_layers' = Append(sorted_layers, [key |-> z, tour |-> sorted_curves])
    /\ start_point' = IF sorted_curves # << >>
                      THEN sorted_curves[Len(sorted_curves)].e
                      ELSE start_point
    /\ opc' = "layer"
    /\ UNCHANGED <<curves, layers, unvisited, sorted_curves, current_point,
                   layer_start, optimized_path>>

\* optimize_path_across_layers (lines 89-93)
OptimizePathAcrossLayers ==
    /\ UNCHANGED genVars
    /\ opc = "layer"
    /\ Len(sorted_layers) = Cardinality(DOMAIN layers)
    /\ optimized_path' = OptimizePath(sorted_layers)
    /\ opc' = "done"
    /\ UNCHANGED <<curves, start_point, layers, sorted_layers, unvisited,
                   sorted_curves, current_point, layer_start>>

NextOpt ==
    \/ GroupCurvesByLayer
    \/ SortFirst
    \/ SortNext
    \/ SortReturn
    \/ OptimizePathAcrossLayers

SpecOpt == InitOpt /\ [][NextOpt]_vars

----------------------------------------------------------------------------
Ids(seq) == { seq[i].id : i \in 1..Len(seq) }

\* C1: when the optimizer script has finished, optimized_path holds every
\* input curve exactly once: it is as long as the input and the curve
\* objects in it are pairwise distinct and are exactly the input's objects.
C1_Permutation ==
    opc = "done" =>
        /\ Len(optimized_path) = Len(curves)
        /\ Ids(optimized_path) = 1..Len(curves)
        /\ \A i, j \in 1..Len(optimized_path) :
               optimized_path[i].id = optimized_path[j].id => i = j
        /\ \A i \in 1..Len(optimized_path) :
               LET c == optimized_path[i]
                   o == curves[c.id]
               IN  IF c.rev THEN c.s = o.e /\ c.e = o.s
                            ELSE c.s = o.s /\ c.e = o.e

\* a finished run over at least three curves in two layers, one reversed
C1_Witness ==
    /\ opc = "done"
    /\ Len(curves) >= 3
    /\ Len(sorted_layers) >= 2
    /\ \E i \in 1..Len(optimized_path) : optimized_path[i].rev
    /\ \E i \in 1..Len(optimized_path) : optimized_path[i].id # i

\* C2: in every layer's tour, for consecutive curves A, B (as oriented in the
\* tour) B's start is at least as close to A's end as B's end is, and B was
\* reversed exactly when its original end was strictly closer to A's end
\* than its original start.
ConsecutiveOk(tour) ==
    \A i \in 1..(Len(tour) - 1) :
        LET A == tour[i]
            B == tour[i + 1]
            o == curves[B.id]
        IN  /\ DistanceTo(A.e, B.s) <= DistanceTo(A.e, B.e)
            /\ B.rev <=> DistanceTo(A.e, o.e) < DistanceTo(A.e, o.s)

C2_Reversal ==
    /\ opc = "nn" => ConsecutiveOk(sorted_curves)
    /\ \A k \in 1..Len(sorted_layers) : ConsecutiveOk(sorted_layers[k].tour)

\* a stored tour with consecutive curves of which the second was reversed,
\* and one with consecutive curves of which the second was not
C2_Witness ==
    /\ \E k \in 1..Len(sorted_layers) :
         \E i \in 1..(Len(sorted_layers[k].tour) - 1) :
             /\ sorted_layers[k].tour[i + 1].rev
             /\ DistanceTo(sorted_layers[k].tour[i].e, sorted_layers[k].tour[i + 1].s)
                  < DistanceTo(sorted_layers[k].tour[i].e, sorted_layers[k].tour[i + 1].e)
    /\ \E k \in 1..Len(sorted_layers) :
         \E i \in 1..(Len(sorted_layers[k].tour) - 1) :
             ~sorted_layers[k].tour[i + 1].rev

----------------------------------------------------------------------------
(***************************************************************************)
(* generate_gcode (v241001).                                               *)
(*                                                                         *)
(* Lengths and coordinates are whole millimetres; a generator point is     *)
(* <<x, y, z>>.  Curves are straight, axis-parallel segments, so the       *)
(* point at arc length a is s + a * (e - s) / len and the distance between *)
(* two samples of one curve is the difference of their arc lengths.        *)
(*                                                                         *)
(* Python floats are modelled where a claim turns on them: a flux value is *)
(* a binary floating-point number with a significand of Precision bits and *)
(* a least exponent of -FracBits (IEEE-754 round-to-nearest-even, narrowed *)
(* from the 53 bits of a double), kept as an integer count of units of     *)
(* 2^-FracBits.                                                            *)
(***************************************************************************)
MaxCurves == 2
Precision == 3
FracBits == 6

One == 2 ^ FracBits

Abs(x) == IF x < 0 THEN 0 - x ELSE x

\* the gap between neighbouring floats at magnitude num/den (in units)
RECURSIVE Ulp(_, _, _)
Ulp(num, den, st) ==
    IF num < den * (2 ^ Precision) * st THEN st ELSE Ulp(num, den, 2 * st)

\* the float nearest to the rational num/den (den > 0), ties to even
RoundPos(num, den) ==
    LET st  == Ulp(num, den, 1)
        q   == num \div (den * st)
        rem == num - q * den * st
    IN  IF 2 * rem < den * st THEN q * st
        ELSE IF 2 * rem > den * st THEN (q + 1) * st
        ELSE IF q % 2 = 0 THEN q * st ELSE (q + 1) * st

Fl(num, den) == IF num < 0 THEN 0 - RoundPos(0 - num, den) ELSE RoundPos(num, den)

\* float +, -, * on flux values and / of two distances (line 387, 399)
FlAdd(a, b) == Fl(a + b, 1)
FlSub(a, b) == Fl(a - b, 1)
FlMul(a, b) == Fl(a * b, One)
FlDiv(n, d) == Fl(n * One, d)

\* flux = start_flux + t_norm * (end_flux - start_flux)   (lines 245, 399)
LinearFlux(start, end, t_norm) == FlAdd(start, FlMul(t_norm, FlSub(end, start)))

\* nozzle_div (line 73)
nozzle_div == 2

\* the speed band of line 125
MinSpeed == 1800
MaxSpeed == 10000

\* constant_denominator = ((5.25 / 2) ** 2) * math.pi = 21.6475..., in
\* hundredths (line 344)
ConstantDenominatorX100 == 2165

\* Point3d.DistanceTo in millimetres: exact between samples of one curve,
\* rounded down to a whole millimetre between points that are not on one
\* axis-parallel line.
ISqrt(n) == CHOOSE r \in 0..n : r * r <= n /\ (r + 1) * (r + 1) > n
DistanceMM(p, q) == ISqrt(DistanceTo(p, q))

\* curve.IsValid and curve.GetLength() > 0   (line 100)
Usable(c) == c.IsValid /\ c.len > 0

\* all_curves (line 100)
AllCurves(path) == SelectSeq(path, Usable)

\* min_z, max_z over start and end points (lines 108-109)
ZsOf(cs) == UNION { {cs[i].s[3], cs[i].e[3]} : i \in 1..Len(cs) }
MinZ(cs) == CHOOSE z \in ZsOf(cs) : \A y \in ZsOf(cs) : z <= y
MaxZ(cs) == CHOOSE z \in ZsOf(cs) : \A y \in ZsOf(cs) : z >= y

\* num_layers = int((max_z - min_z) / layer_h) + 1   (line 110)
NumLayersMutNoPlusOne(cs, lh) == (MaxZ(cs) - MinZ(cs)) \div lh
NumLayers(cs, lh) == (MaxZ(cs) - MinZ(cs)) \div lh + 1

\* layer_index = int((curve.PointAtEnd.Z - min_z) / layer_h)   (line 180)
LayerIndex(c, minz, lh) == (c.e[3] - minz) \div lh

\* the if/elif chains of lines 113-121 and 134-142; "" when no branch fits
ScopeMutCurveFirst(n, nl, nc) ==
    IF n = 1 THEN "global"
    ELSE IF n = nc THEN "per_curve"
    ELSE IF n = nl THEN "per_layer"
    ELSE ""
Scope(n, nl, nc) ==
    IF n = 1 THEN "global"
    ELSE IF n = nl THEN "per_layer"
    ELSE IF n = nc THEN "per_curve"
    ELSE ""

\* the loop of lines 124-127
SpeedsInBandMutNoCheck(speeds) == TRUE
SpeedsInBand(speeds) ==
    \A i \in 1..Len(speeds) : ~(speeds[i] < MinSpeed \/ speeds[i] > MaxSpeed)

\* lines 160-163: a one-element list is repeated num_curves times
Broadcast(lst, nc) == IF Len(lst) = 1 THEN [i \in 1..nc |-> lst[1]] ELSE lst

\* None in the fifth slot of a returned tuple
NoLayers == 0 - 1

\* Lines 93-168: what validation decides.  ok = FALSE is a return with
\* gcode = None and `layers` in the fifth slot.
Validation ==
    LET ac == AllCurves(printing_path)
        nc == Len(ac)
        nl == NumLayers(ac, layer_h)
        sm == Scope(Len(printing_speed), nl, nc)
        fm == Scope(Len(m1_flux), nl, nc)
        fs == Broadcast(m2_flux_start.list, nc)
        fe == Broadcast(m2_flux_end.list, nc)
        bad(l)  == [ok |-> FALSE, layers |-> l, sm |-> "", fm |-> "",
                    fs |-> << >>, fe |-> << >>]
    IN  IF nc = 0 THEN bad(NoLayers)
        ELSE IF sm = "" THEN bad(nl)
        ELSE IF ~SpeedsInBand(printing_speed) THEN bad(NoLayers)
        ELSE IF flux_mode = 1
             THEN IF fm = "" THEN bad(nl)
                  ELSE [ok |-> TRUE, layers |-> nl, sm |-> sm, fm |-> fm,
                        fs |-> << >>, fe |-> << >>]
        ELSE IF m2_flux_start.none \/ m2_flux_end.none THEN bad(NoLayers)
        ELSE IF Len(fs) # Len(fe) \/ Len(fs) # nc THEN bad(NoLayers)
        ELSE [ok |-> TRUE, layers |-> nl, sm |-> sm, fm |-> "",
              fs |-> fs, fe |-> fe]

\* curve.DivideByLength(nozzle_diameter / nozzle_div, True): None when the
\* division fails, else the parameters of the division points, the start of
\* the first segment included (includeEnds): 0, step, 2 * step, ... <= len.
DivideByLength(c, step) ==
    IF ~c.div THEN [none |-> TRUE, params |-> << >>]
    ELSE [none |-> FALSE, params |-> [j \in 1..(c.len \div step + 1) |-> (j - 1) * step]]

\* curve.PointAt(t), t an arc length from the start
PointAt(c, a) ==
    <<c.s[1] + a * ((c.e[1] - c.s[1]) \div c.len),
      c.s[2] + a * ((c.e[2] - c.s[2]) \div c.len),
      c.s[3] + a * ((c.e[3] - c.s[3]) \div c.len)>>

\* lines 377-379: the division points, the start inserted in front, the end
\* appended
SamplePointsMutNoEnd(c, params) ==
    <<c.s>> \o [j \in 1..Len(params) |-> PointAt(c, params[j])]
SamplePoints(c, params) ==
    <<c.s>> \o [j \in 1..Len(params) |-> PointAt(c, params[j])] \o <<c.e>>

\* lines 381-387: cumulative_distances and normalized_distances
RECURSIVE Cumulative(_, _)
Cumulative(pts, i) ==
    IF i <= 1 THEN 0 ELSE Cumulative(pts, i - 1) + DistanceMM(pts[i - 1], pts[i])

Normalized(pts, i) ==
    LET total == Cumulative(pts, Len(pts))
    IN  IF total > 0 THEN FlDiv(Cumulative(pts, i), total) ELSE 0

\* a number of minutes as a fraction <<numerator, denominator>> in lowest
\* terms (denominator > 0); None where no time was computed
RECURSIVE GCD(_, _)
GCD(a, b) == IF b = 0 THEN a ELSE GCD(b, a % b)
Frac(n, d) == LET g == GCD(Abs(n), d) IN <<n \div g, d \div g>>
NoTime == << >>

RECURSIVE Sum(_)
Sum(lst) == IF lst = << >> THEN 0 ELSE Head(lst) + Sum(Tail(lst))

\* lines 261-262: average_speed = sum(printing_speed) / len(printing_speed);
\* printing_time_minutes = total_printing_distance / average_speed
\* if total_printing_distance else 0
PrintingTime ==
    IF total_printing_distance # 0
    THEN Frac(total_printing_distance * Len(printing_speed), Sum(printing_speed))
    ELSE <<0, 1>>

\* sorted(curves_by_layer.keys())
LayerKeys == SortedKeys(DOMAIN curves_by_layer)

\* lines 350-353: current_speed at the top of a layer (in per_curve mode the
\* name keeps the value it had)
LayerSpeedMutFirst(layer_index) ==
    IF speed_mode_detail = "per_curve" THEN current_speed ELSE printing_speed[1]
LayerSpeed(layer_index) ==
    IF speed_mode_detail = "global" THEN printing_speed[1]
    ELSE IF speed_mode_detail = "per_layer" THEN printing_speed[layer_index + 1]
    ELSE current_speed

\* lines 357-358
CurveSpeed(curve_index) ==
    IF speed_mode_detail = "per_curve" THEN printing_speed[curve_index + 1]
    ELSE current_speed

\* lines 360-371: current_flux, start_flux, end_flux of a curve
CurveFlux(layer_index, curve_index) ==
    IF flux_mode = 1
    THEN LET current_flux ==
                 IF flux_mode_detail = "global" THEN m1_flux[1]
                 ELSE IF flux_mode_detail = "per_layer" THEN m1_flux[layer_index + 1]
                 ELSE m1_flux[curve_index + 1]
         IN  [current |-> current_flux, start |-> current_flux, end |-> current_flux]
    ELSE [current |-> 0, start |-> flux_start[curve_index + 1],
          end |-> flux_end[curve_index + 1]]

\* lines 397-401: the flux of the segment that ends at sample i
SegmentFlux(pts, i, fl) ==
    IF flux_mode = 2 THEN LinearFlux(fl.start, fl.end, Normalized(pts, i))
    ELSE fl.current

\* line 404: extrusion_increment = ((nozzle_diameter * layer_h) /
\* constant_denominator) * flux * segment_distance, kept exactly as the
\* numerator nozzle_diameter * layer_h * flux * segment_distance, whose unit
\* is 1 / (One * constant_denominator) mm
ExtrusionIncrement(pts, i, fl) ==
    nozzle_diameter * layer_h * SegmentFlux(pts, i, fl) * DistanceMM(pts[i - 1], pts[i])

RECURSIVE SumIncrements(_, _, _)
SumIncrements(pts, i, fl) ==
    IF i <= 1 THEN 0 ELSE SumIncrements(pts, i - 1, fl) + ExtrusionIncrement(pts, i, fl)

\* lines 406-410: e_value of sample i
EValueMutPerCurve(pts, i, fl) ==
    IF e_absolute THEN SumIncrements(pts, i, fl)
    ELSE ExtrusionIncrement(pts, i, fl)
EValue(pts, i, fl) ==
    IF e_absolute THEN extrusion_amount + SumIncrements(pts, i, fl)
    ELSE ExtrusionIncrement(pts, i, fl)

\* f"{e_value:.2f}": the numerator as hundredths of a millimetre, rounded to
\* the nearest
FormatE(num) ==
    LET d == One * (ConstantDenominatorX100 \div 5)
        h == (4000 * Abs(num) + d) \div (2 * d)
    IN  IF num < 0 THEN 0 - h ELSE h

\* One line of the program.  op is the command (or the comment's text), k a
\* layer number or count, F the feed rate, pt the coordinates, E the
\* extrusion value in hundredths; c (the curve_index the line was emitted
\* for), flux (the flux of its segment) and inc (the increment's numerator)
\* record where a line came from.
Line(op, k, F, pt, E, c, inc) ==
    [op |-> op, k |-> k, F |-> F, pt |-> pt, E |-> E, c |-> c, inc |-> inc,
     flux |-> 0]

Text(op) == Line(op, 0, 0, NoPoint, 0, 0 - 1, 0)

\* lines 389-414: the lines of one curve
CurveLines(layer_index, curve_index, pts, speed, fl) ==
    [i \in 1..Len(pts) |->
        IF i = 1
        THEN Line("G0", layer_index + 1, speed, pts[i], 0, curve_index, 0)
        ELSE [Line("G1", layer_index + 1, speed, pts[i],
                   FormatE(EValue(pts, i, fl)), curve_index,
                   ExtrusionIncrement(pts, i, fl))
                EXCEPT !.flux = SegmentFlux(pts, i, fl)]]

\* lines 272-338: the start block
StartBlock ==
    << Text(";PRINTING INFORMATION:"),
       Line(";Nozzle diameter", nozzle_diameter, 0, NoPoint, 0, 0 - 1, 0),
       Line(";Number of layers", num_layers, 0, NoPoint, 0, 0 - 1, 0),
       Line(";Layer height", layer_h, 0, NoPoint, 0, 0 - 1, 0),
       Text(IF e_absolute THEN ";Extrusion mode: Absolute" ELSE ";Extrusion mode: Relative"),
       Text(IF flux_mode = 1 THEN ";Flux mode: Constant" ELSE ";Flux mode: Linear"),
       Text(";Printing speed"),
       Text(";Flux multiplier"),
       Text(";Material density: 2000 kg/m^3"),
       Text(";Note: Invalid or missing density value."),
       Line(";Estimated printing volume", 0, 0, NoPoint, 0, 0 - 1, total_extruded_volume),
       Text(";Estimated printing mass"),
       Text("; -- START GCODE --"),
       Text("G90"),
       Text(IF e_absolute THEN "M82 ;Absolute" ELSE "M83 ;Relative") >>
    \o << Text("G28") >>
    \o (IF e_absolute THEN << Text("G92 E0.0000"), Text("G1 E-4.0000 F6000") >>
                      ELSE << Text("G1 E-4.0000 F6000") >>)
    \o << Line("G1 Z F12000", 0, 12000, <<0, 0, min_z + 2>>, 0, 0 - 1, 0),
          Text("; -- END OF START GCODE --") >>

\* lines 426-437: the end block
EndBlockMutNoReset ==
    << Text("; -- END GCODE --"), Text("G1 E-4.0000 F6000"),
       Text("G28"), Text("; -- END OF END GCODE --") >>
EndBlock ==
    << Text("; -- END GCODE --") >>
    \o (IF e_absolute THEN << Text("G92 E0.0000"), Text("G1 E-4.0000 F6000") >>
                      ELSE << Text("G1 E-4.0000 F6000") >>)
    \o << Text("G28"), Text("; -- END OF END GCODE --") >>

(***************************************************************************)
(* Inputs of generate_gcode.                                               *)
(***************************************************************************)
GenCurves ==
    { [IsValid |-> TRUE,  len |-> 3, s |-> <<0, 0, 0>>, e |-> <<3, 0, 0>>, div |-> TRUE],
      [IsValid |-> TRUE,  len |-> 1, s |-> <<2, 0, 1>>, e |-> <<3, 0, 1>>, div |-> FALSE],
      [IsValid |-> TRUE,  len |-> 2, s |-> <<0, 0, 2>>, e |-> <<0, 0, 0>>, div |-> TRUE],
      [IsValid |-> TRUE,  len |-> 1, s |-> <<0, 0, 2>>, e |-> <<1, 0, 2>>, div |-> TRUE],
      [IsValid |-> FALSE, len |-> 0, s |-> <<0, 0, 0>>, e |-> <<0, 0, 0>>, div |-> FALSE] }

SpeedLists ==
    { <<3000>>, <<1800, 10000>>, <<3000, 6000, 9000>>, <<1799>>, <<3000, 10001>> }

\* m1_flux lists (flux values in units of 2^-FracBits)
FluxLists ==
    { <<One>>, <<One, 2 * One>>, <<One \div 2, One, 2 * One>>, <<0 - One>> }

NoneArg == [none |-> TRUE, list |-> << >>]
ListArg(l) == [none |-> FALSE, list |-> l]

\* (m2_flux_start, m2_flux_end)
LinearPairs ==
    { <<NoneArg, ListArg(<<One>>)>>,
      <<ListArg(<<One>>), NoneArg>>,
      <<ListArg(<<5 * One>>), ListArg(<<(7 * One) \div 8>>)>>,
      <<ListArg(<<One, 2 * One>>), ListArg(<<2 * One, One \div 2>>)>>,
      <<ListArg(<<One>>), ListArg(<<One, 2 * One>>)>>,
      <<ListArg(<<One, 2 * One>>), ListArg(<<One, One, One>>)>> }

InitGen ==
    /\ OptIdle
    /\ printing_path \in SeqsUpTo(GenCurves, MaxCurves)
    /\ nozzle_diameter \in {2, 4}
    /\ layer_h \in {1, 2}
    /\ printing_speed \in SpeedLists
    /\ e_absolute \in BOOLEAN
    /\ retract \in BOOLEAN
    /\ flux_mode \in {1, 2}
    /\ IF flux_mode = 1
       THEN /\ m1_flux \in FluxLists
            /\ m2_flux_start = NoneArg
            /\ m2_flux_end = NoneArg
       ELSE /\ m1_flux = <<One>>
            /\ \E pr \in LinearPairs : m2_flux_start = pr[1] /\ m2_flux_end = pr[2]
    /\ all_curves = << >> /\ num_layers = 0 /\ min_z = 0
    /\ speed_mode_detail = "" /\ flux_mode_detail = ""
    /\ flux_start = << >> /\ flux_end = << >>
    /\ curves_by_layer = << >>
    /\ total_extruded_volume = 0 /\ total_printing_distance = 0
    /\ previous_point = NoPoint /\ gcode = << >> /\ printing_points = << >>
    /\ extrusion_amount = 0 /\ current_speed = 0
    /\ layer_pos = 0 /\ curve_pos = 0 /\ points = << >>
    /\ result = [returned |-> FALSE, gcode_none |-> TRUE, layers |-> NoLayers,
                 time |-> NoTime]
    /\ gpc = "validate"
    /\ printing_flux = << >>
    /\ total_extrusion_distance = 0 /\ total_travel_distance = 0

\* Lines 93-175.  A failed check returns (None, None, None, None, layers)
\* at once; otherwise the locals the rest of the call reads are set.
Validate ==
    /\ UNCHANGED <<optVars, v240811Vars>>
    /\ gpc = "validate"
    /\ LET v == Validation
       IN  IF v.ok
           THEN /\ all_curves' = AllCurves(printing_path)
                /\ num_layers' = v.layers
                /\ min_z' = MinZ(AllCurves(printing_path))
                /\ speed_mode_detail' = v.sm
                /\ flux_mode_detail' = v.fm
                /\ flux_start' = v.fs
                /\ flux_end' = v.fe
                /\ gpc' = "group"
                /\ UNCHANGED result
           ELSE /\ result' = [returned |-> TRUE, gcode_none |-> TRUE, layers |-> v.layers,
                                 time |-> NoTime]
                /\ gpc' = "failed"
                /\ UNCHANGED genSetup
    /\ UNCHANGED <<genParams, curves_by_layer, total_extruded_volume,
                   total_printing_distance, previous_point, gcode, printing_points,
                   extrusion_amount, current_speed, layer_pos, curve_pos, points>>

\* the curve_index values (0-based) filed under layer k, in input order
RECURSIVE IndicesOfLayer(_, _)
IndicesOfLayer(k, n) ==
    IF n = 0 THEN << >>
    ELSE IndicesOfLayer(k, n - 1)
         \o (IF LayerIndex(all_curves[n], min_z, layer_h) = k THEN <<n - 1>> ELSE << >>)

\* Lines 177-188: group the valid curves by layer, initialise the locals.
GroupByLayer ==
    /\ UNCHANGED <<optVars, v240811Vars>>
    /\ gpc = "group"
    /\ curves_by_layer' =
           [k \in { LayerIndex(all_curves[i], min_z, layer_h) : i \in 1..Len(all_curves) }
               |-> IndicesOfLayer(k, Len(all_curves))]
    /\ total_extruded_volume' = 0
    /\ total_printing_distance' = 0
    /\ previous_point' = NoPoint
    /\ gcode' = << >>
    /\ printing_points' = << >>
    /\ gpc' = "estimate"
    /\ UNCHANGED <<genParams, genSetup, extrusion_amount, current_speed, layer_pos,
                   curve_pos, points, result>>

\* the (layer_index, curve_index) pairs in the order both passes visit them
RECURSIVE VisitOrder(_)
VisitOrder(keys) ==
    IF keys = << >> THEN << >>
    ELSE [j \in 1..Len(curves_by_layer[Head(keys)]) |->
             <<Head(keys), curves_by_layer[Head(keys)][j]>>]
         \o VisitOrder(Tail(keys))

\* line 249-250 summed over a curve: cross_sectional_area * segment_distance
\* with cross_sectional_area = (nozzle_diameter * 1.1 * flux) * layer_h, as
\* the numerator 11 * nozzle_diameter * flux * layer_h * segment_distance,
\* whose unit is 1 / (10 * One) mm^3
RECURSIVE CurveVolume(_, _, _)
CurveVolume(pts, i, fl) ==
    IF i <= 1 THEN 0
    ELSE CurveVolume(pts, i - 1, fl)
         + 11 * nozzle_diameter * SegmentFlux(pts, i, fl) * layer_h
              * DistanceMM(pts[i - 1], pts[i])

\* Lines 191-258, the estimation pass, folded over the visit order.
RECURSIVE EstimateFrom(_, _, _)
EstimateFrom(order, n, acc) ==
    IF n > Len(order) THEN acc
    ELSE LET layer_index == order[n][1]
             curve_index == order[n][2]
             curve == all_curves[curve_index + 1]
             fl    == CurveFlux(layer_index, curve_index)
             d     == DivideByLength(curve, nozzle_diameter \div nozzle_div)
             pts   == SamplePoints(curve, d.params)
             speed == IF speed_mode_detail = "global" THEN printing_speed[1]
                      ELSE IF speed_mode_detail = "per_layer"
                           THEN printing_speed[layer_index + 1]
                      ELSE printing_speed[curve_index + 1]
         IN  IF d.none
             THEN EstimateFrom(order, n + 1, [acc EXCEPT !.speed = speed])
             ELSE EstimateFrom(order, n + 1,
                    [volume   |-> acc.volume + CurveVolume(pts, Len(pts), fl),
                     distance |-> acc.distance + Cumulative(pts, Len(pts))
                                  + (IF acc.prev # NoPoint
                                     THEN DistanceMM(acc.prev, pts[1]) ELSE 0),
                     prev     |-> pts[Len(pts)],
                     pts      |-> pts,
                     speed    |-> speed])

Estimate ==
    /\ UNCHANGED <<optVars, v240811Vars>>
    /\ gpc = "estimate"
    /\ LET est == EstimateFrom(VisitOrder(LayerKeys), 1,
                      [volume |-> 0, distance |-> 0, prev |-> NoPoint,
                       pts |-> << >>, speed |-> current_speed])
       IN  /\ total_extruded_volume' = est.volume
           /\ total_printing_distance' = est.distance
           /\ previous_point' = est.prev
           /\ points' = est.pts
           /\ current_speed' = est.speed
    /\ gpc' = "start"
    /\ UNCHANGED <<genParams, genSetup, curves_by_layer, gcode, printing_points,
                   extrusion_amount, layer_pos, curve_pos, result>>

\* Lines 271-344: the header and start block; the accumulator and the
\* cursor are set for the generation pass.
EmitStartBlock ==
    /\ UNCHANGED <<optVars, v240811Vars>>
    /\ gpc = "start"
    /\ gcode' = gcode \o StartBlock
    /\ extrusion_amount' = 0
    /\ previous_point' = NoPoint
    /\ layer_pos' = 1
    /\ gpc' = "layer"
    /\ UNCHANGED <<genParams, genSetup, curves_by_layer, total_extruded_volume,
                   total_printing_distance, printing_points, current_speed,
                   curve_pos, points, result>>

\* Lines 346-353: the next layer in ascending order is opened.
LayerOpen ==
    /\ UNCHANGED <<optVars, v240811Vars>>
    /\ gpc = "layer"
    /\ layer_pos <= Len(LayerKeys)
    /\ LET layer_index == LayerKeys[layer_pos]
       IN  /\ gcode' = Append(gcode, Line("; Start of layer", layer_index + 1, 0,
                                           NoPoint, 0, 0 - 1, 0))
           /\ current_speed' = LayerSpeed(layer_index)
    /\ curve_pos' = 1
    /\ gpc' = "curve"
    /\ UNCHANGED <<genParams, genSetup, curves_by_layer, total_extruded_volume,
                   total_printing_distance, previous_point, printing_points,
                   extrusion_amount, layer_pos, points, result>>

\* Lines 355-416: one curve of the layer.  A curve whose division failed is
\* skipped (continue) after its speed was resolved.
EmitCurve ==
    /\ UNCHANGED <<optVars, v240811Vars>>
    /\ gpc = "curve"
    /\ curve_pos <= Len(curves_by_layer[LayerKeys[layer_pos]])
    /\ LET layer_index == LayerKeys[layer_pos]
           curve_index == curves_by_layer[layer_index][curve_pos]
           curve == all_curves[curve_index + 1]
           speed == CurveSpeed(curve_index)
           fl    == CurveFlux(layer_index, curve_index)
           d     == DivideByLength(curve, nozzle_diameter \div nozzle_div)
           pts   == SamplePoints(curve, d.params)
       IN  /\ current_speed' = speed
           /\ IF d.none
              THEN UNCHANGED <<gcode, printing_points, extrusion_amount,
                               previous_point, points>>
              ELSE /\ points' = pts
                   /\ gcode' = gcode \o CurveLines(layer_index, curve_index, pts, speed, fl)
                   /\ printing_points' = printing_points \o pts
                   /\ extrusion_amount' =
                          IF e_absolute
                          THEN extrusion_amount + SumIncrements(pts, Len(pts), fl)
                          ELSE extrusion_amount
                   /\ previous_point' = pts[Len(pts)]
    /\ curve_pos' = curve_pos + 1
    /\ UNCHANGED <<genParams, genSetup, curves_by_layer, total_extruded_volume,
                   total_printing_distance, layer_pos, result, gpc>>

\* previous_point.Z += layer_h
Lift(p) == <<p[1], p[2], p[3] + layer_h>>

\* Lines 418-424: the layer is closed.  With retract set, last_point.Z is
\* read: on an unset cursor (None) that raises AttributeError and the call
\* ends without returning; otherwise the retraction line is emitted and the
\* cursor is lifted (the cursor is the object that ends `points` and
\* `printing_points`, which see the lift too).
LayerClose ==
    /\ UNCHANGED <<optVars, v240811Vars>>
    /\ gpc = "curve"
    /\ curve_pos > Len(curves_by_layer[LayerKeys[layer_pos]])
    /\ LET layer_index == LayerKeys[layer_pos]
           closing == Line("; End of layer", layer_index + 1, 0, NoPoint, 0, 0 - 1, 0)
       IN  IF retract /\ previous_point = NoPoint
           THEN /\ gpc' = "crashed"
                /\ UNCHANGED <<gcode, previous_point, points, printing_points, layer_pos>>
           ELSE IF retract
           THEN /\ gcode' = gcode \o
                       << Line("G1 Z ; Retract", layer_index + 1, current_speed,
                               Lift(previous_point), 0, 0 - 1, 0),
                          closing >>
                /\ previous_point' = Lift(previous_point)
                /\ points' = [points EXCEPT ![Len(points)] = Lift(previous_point)]
                /\ printing_points' =
                       [printing_points EXCEPT ![Len(printing_points)] = Lift(previous_point)]
                /\ layer_pos' = layer_pos + 1
                /\ gpc' = "layer"
           ELSE /\ gcode' = Append(gcode, closing)
                /\ layer_pos' = layer_pos + 1
                /\ gpc' = "layer"
                /\ UNCHANGED <<previous_point, points, printing_points>>
    /\ UNCHANGED <<genParams, genSetup, curves_by_layer, total_extruded_volume,
                   total_printing_distance, extrusion_amount, current_speed,
                   curve_pos, result>>

\* Lines 426-442: the end block, and the return of the program with the
\* printing time computed at lines 261-263.
EmitEndBlock ==
    /\ UNCHANGED <<optVars, v240811Vars>>
    /\ gpc = "layer"
    /\ layer_pos > Len(LayerKeys)
    /\ gcode' = gcode \o EndBlock
    /\ result' = [returned |-> TRUE, gcode_none |-> FALSE, layers |-> num_layers,
                  time |-> PrintingTime]
    /\ gpc' = "done"
    /\ UNCHANGED <<genParams, genSetup, curves_by_layer, total_extruded_volume,
                   total_printing_distance, previous_point, printing_points,
                   extrusion_amount, current_speed, layer_pos, curve_pos, points>>

NextGen ==
    \/ Validate
    \/ GroupByLayer
    \/ Estimate
    \/ EmitStartBlock
    \/ LayerOpen
    \/ EmitCurve
    \/ LayerClose
    \/ EmitEndBlock

SpecGen == InitGen /\ [][NextGen]_vars

----------------------------------------------------------------------------
\* the curve_index the generation pass handled last in the open layer, and
\* that curve
LastIndex == curves_by_layer[LayerKeys[layer_pos]][curve_pos - 1]
LastCurve == all_curves[LastIndex + 1]

\* a curve has just been sampled by the generation pass
JustSampled == gpc = "curve" /\ curve_pos > 1 /\ LastCurve.div

\* the places of the lines that move to a sample of a curve
SampleLines == { n \in 1..Len(gcode) : gcode[n].op \in {"G0", "G1"} }
ExtrusionLines == { n \in 1..Len(gcode) : gcode[n].op = "G1" }

\* C3: the sample point list built for a curve starts with the curve's start
\* point and ends with its end point, whatever the step length; so do the
\* lines emitted for the curve.
C3_Endpoints ==
    /\ JustSampled =>
          /\ Len(points) >= 2
          /\ points[1] = LastCurve.s
          /\ points[Len(points)] = LastCurve.e
    /\ \A ci \in 0..(Len(all_curves) - 1) :
          LET mine == { n \in SampleLines : gcode[n].c = ci }
          IN  mine # {} =>
                LET first == CHOOSE n \in mine : \A m \in mine : n <= m
                    last  == CHOOSE n \in mine : \A m \in mine : n >= m
                IN  /\ gcode[first].op = "G0"
                    /\ gcode[first].pt = all_curves[ci + 1].s
                    /\ gcode[last].pt = all_curves[ci + 1].e

\* a curve whose length the step does not divide has just been sampled
C3_Witness ==
    /\ JustSampled
    /\ LastCurve.len % (nozzle_diameter \div nozzle_div) # 0
    /\ LastCurve.len > nozzle_diameter \div nozzle_div
    /\ Len(points) >= 3

\* C4: in a returned program every valid curve has at least two samples and
\* so at least one G1 line with an E value, also when its division failed.
C4_EveryCurveExtrudes ==
    gpc = "done" =>
        \A ci \in 0..(Len(all_curves) - 1) :
            /\ \E n \in SampleLines : gcode[n].op = "G0" /\ gcode[n].c = ci
            /\ \E n \in ExtrusionLines : gcode[n].c = ci

\* validation has passed
Passed == gpc \notin {"validate", "failed"}

\* the value list lst gives a line under each scope
Uniformly(lst, n) == lst[1]
PerLayer(lst, n)  == lst[gcode[n].k]
PerCurve(lst, n)  == lst[gcode[n].c + 1]

\* C5 as stated: length 1 is applied uniformly, length = layer count per
\* layer, length = valid-curve count per curve, any other length fails
\* validation; for the speed list, and for the flux list in constant mode.
C5_ScopeByLength ==
    Passed =>
        /\ Len(printing_speed) \in {1, num_layers, Len(all_curves)}
        /\ \A n \in SampleLines :
              /\ Len(printing_speed) = 1 => gcode[n].F = Uniformly(printing_speed, n)
              /\ Len(printing_speed) = num_layers => gcode[n].F = PerLayer(printing_speed, n)
              /\ Len(printing_speed) = Len(all_curves)
                    => gcode[n].F = PerCurve(printing_speed, n)
        /\ flux_mode = 1 =>
              /\ Len(m1_flux) \in {1, num_layers, Len(all_curves)}
              /\ \A n \in ExtrusionLines :
                    /\ Len(m1_flux) = 1 => gcode[n].flux = Uniformly(m1_flux, n)
                    /\ Len(m1_flux) = num_layers => gcode[n].flux = PerLayer(m1_flux, n)
                    /\ Len(m1_flux) = Len(all_curves)
                          => gcode[n].flux = PerCurve(m1_flux, n)

\* C5, amended: as C5, but a list whose length equals the valid-curve count
\* is applied per curve only when that length is not also the layer count
\* (a list as long as both counts is applied per layer).
C5_ScopeByPrecedence ==
    Passed =>
        /\ Len(printing_speed) \in {1, num_layers, Len(all_curves)}
        /\ \A n \in SampleLines :
              /\ Len(printing_speed) = 1 => gcode[n].F = Uniformly(printing_speed, n)
              /\ Len(printing_speed) = num_layers => gcode[n].F = PerLayer(printing_speed, n)
              /\ (Len(printing_speed) = Len(all_curves)
                    /\ Len(printing_speed) # num_layers)
                    => gcode[n].F = PerCurve(printing_speed, n)
        /\ flux_mode = 1 =>
              /\ Len(m1_flux) \in {1, num_layers, Len(all_curves)}
              /\ \A n \in ExtrusionLines :
                    /\ Len(m1_flux) = 1 => gcode[n].flux = Uniformly(m1_flux, n)
                    /\ Len(m1_flux) = num_layers => gcode[n].flux = PerLayer(m1_flux, n)
                    /\ (Len(m1_flux) = Len(all_curves) /\ Len(m1_flux) # num_layers)
                          => gcode[n].flux = PerCurve(m1_flux, n)

\* a returned program whose speed list and flux list were applied per curve:
\* two curves, a layer count other than two, and lines that differ in feed
\* rate and in flux
C5_Witness ==
    /\ gpc = "done"
    /\ flux_mode = 1
    /\ Len(all_curves) = 2 /\ num_layers # 2
    /\ Len(printing_speed) = 2 /\ Len(m1_flux) = 2
    /\ \E n, m \in ExtrusionLines :
          /\ gcode[n].c = 0 /\ gcode[m].c = 1
          /\ gcode[n].F # gcode[m].F
          /\ gcode[n].flux # gcode[m].flux

\* what the validation checks demand of the inputs
InputsValid ==
    LET ac == AllCurves(printing_path)
        nc == Len(ac)
        nl == (MaxZ(ac) - MinZ(ac)) \div layer_h + 1
    IN  /\ nc > 0
        /\ Len(printing_speed) \in {1, nl, nc}
        /\ \A i \in 1..Len(printing_speed) :
               printing_speed[i] >= MinSpeed /\ printing_speed[i] <= MaxSpeed
        /\ flux_mode = 1 => Len(m1_flux) \in {1, nl, nc}
        /\ flux_mode = 2 =>
               /\ ~m2_flux_start.none /\ ~m2_flux_end.none
               /\ Len(m2_flux_start.list) \in {1, nc}
               /\ Len(m2_flux_end.list) \in {1, nc}

\* a program is complete: start block, a block for every layer, end block
Complete ==
    /\ Len(gcode) >= Len(StartBlock) + Len(EndBlock)
    /\ SubSeq(gcode, 1, Len(StartBlock)) = StartBlock
    /\ SubSeq(gcode, Len(gcode) - Len(EndBlock) + 1, Len(gcode)) = EndBlock
    /\ \A k \in DOMAIN curves_by_layer :
          /\ \E n \in 1..Len(gcode) :
                gcode[n].op = "; Start of layer" /\ gcode[n].k = k + 1
          /\ \E n \in 1..Len(gcode) :
                gcode[n].op = "; End of layer" /\ gcode[n].k = k + 1

\* C6: a failed validation check makes the call return with gcode = None and
\* no line produced; inputs that fail a check never get past validation; a
\* program is returned only for inputs that pass every check, and it is
\* complete.
C6_AtomicValidation ==
    /\ gpc = "failed" =>
          /\ result.returned /\ result.gcode_none
          /\ gcode = << >> /\ printing_points = << >>
    /\ (gpc # "validate" /\ ~InputsValid) => gpc = "failed"
    /\ gcode # << >> => InputsValid
    /\ (result.returned /\ ~result.gcode_none) =>
          /\ InputsValid
          /\ gpc = "done"
          /\ Complete

\* the call has returned the failure signal for a speed below the band,
\* given a valid curve
C6_Witness ==
    /\ gpc = "failed"
    /\ AllCurves(printing_path) # << >>
    /\ \E i \in 1..Len(printing_speed) : printing_speed[i] < MinSpeed
    /\ result.returned /\ result.gcode_none

\* the E values of the G1 lines never decrease in emission order
NonDecreasingE ==
    \A n, m \in ExtrusionLines : n < m => gcode[n].E <= gcode[m].E

\* C7 as stated: in absolute mode the E values of the G1 lines never
\* decrease, in any run that passes validation.
C7_MonotoneE == e_absolute => NonDecreasingE

\* no flux multiplier given to the call is negative
FluxNonNegative ==
    /\ flux_mode = 1 => \A i \in 1..Len(m1_flux) : m1_flux[i] >= 0
    /\ flux_mode = 2 =>
          /\ \A i \in 1..Len(m2_flux_start.list) : m2_flux_start.list[i] >= 0
          /\ \A i \in 1..Len(m2_flux_end.list) : m2_flux_end.list[i] >= 0

\* C7, amended: in absolute mode the E values of the G1 lines never
\* decrease, in any run that passes validation and whose flux multipliers
\* are all non-negative.
C7_MonotoneE_NonNegativeFlux == (e_absolute /\ FluxNonNegative) => NonDecreasingE

\* a returned absolute-mode program whose E value grows within a curve and
\* from a curve of one layer to a curve of a later layer
C7_Witness ==
    /\ gpc = "done" /\ e_absolute /\ FluxNonNegative
    /\ \E n, m \in ExtrusionLines :
          /\ n < m /\ gcode[n].k < gcode[m].k /\ gcode[n].E < gcode[m].E
    /\ \E n, m \in ExtrusionLines :
          /\ n < m /\ gcode[n].c = gcode[m].c /\ gcode[n].E < gcode[m].E

\* C8: in linear flux mode the interpolated flux of a curve is exactly
\* start_flux at its first sample (t_norm = 0) and exactly end_flux at its
\* last sample (t_norm = 1).
C8_LinearFluxEndpoints ==
    (flux_mode = 2 /\ JustSampled) =>
        /\ LinearFlux(flux_start[LastIndex + 1], flux_end[LastIndex + 1],
                      Normalized(points, 1)) = flux_start[LastIndex + 1]
        /\ LinearFlux(flux_start[LastIndex + 1], flux_end[LastIndex + 1],
                      Normalized(points, Len(points))) = flux_end[LastIndex + 1]
        /\ gcode[Len(gcode)].flux = flux_end[LastIndex + 1]

\* the places (layer key, position) at which curve_index ci is filed
FiledAt(ci) ==
    { kj \in UNION { {k} \X (1..Len(curves_by_layer[k])) : k \in DOMAIN curves_by_layer } :
        curves_by_layer[kj[1]][kj[2]] = ci }

\* C9: num_layers = floor((maxZ - minZ) / layer_h) + 1 over the valid
\* curves; every valid curve is filed under exactly one layer, the one with
\* index floor((endZ - minZ) / layer_h), and every layer index lies in
\* 0..num_layers-1.
C9_LayerBanding ==
    gpc \notin {"validate", "failed", "group"} =>
        LET lo == MinZ(all_curves)
            hi == MaxZ(all_curves)
        IN  /\ min_z = lo
            /\ num_layers = (hi - lo) \div layer_h + 1
            /\ \A k \in DOMAIN curves_by_layer :
                   k \in 0..(num_layers - 1) /\ curves_by_layer[k] # << >>
            /\ \A i \in 1..Len(all_curves) :
                   /\ Cardinality(FiledAt(i - 1)) = 1
                   /\ \A kj \in FiledAt(i - 1) :
                          /\ kj[1] = (all_curves[i].e[3] - lo) \div layer_h
                          /\ kj[1] \in 0..(num_layers - 1)

\* curves filed under two layers with an empty layer between them, one of
\* the curves with its start above its end
C9_Witness ==
    /\ gpc = "estimate"
    /\ num_layers = 3
    /\ DOMAIN curves_by_layer = {0, 2}
    /\ \E i \in 1..Len(all_curves) : all_curves[i].s[3] > all_curves[i].e[3]

IsLayerMarker(l) == l.op \in {"; Start of layer", "; End of layer"}

\* C10: a returned program is the start block (closed by its marker), then
\* one block per non-empty layer in strictly ascending layer number, each
\* opened by "; Start of layer k" and closed by "; End of layer k" with no
\* block inside another, then the end block; every motion line of a curve,
\* and every retraction, lies inside the block of its layer.
C10_BlockOrder ==
    (result.returned /\ ~result.gcode_none) =>
        LET n0   == Len(StartBlock)
            n1   == Len(gcode) - Len(EndBlock)
            body == SubSeq(gcode, n0 + 1, n1)
            mk   == SelectSeq(body, IsLayerMarker)
        IN  /\ n0 <= n1
            /\ SubSeq(gcode, 1, n0) = StartBlock
            /\ gcode[n0].op = "; -- END OF START GCODE --"
            /\ SubSeq(gcode, n1 + 1, Len(gcode)) = EndBlock
            /\ \A n \in (1..n0) \cup ((n1 + 1)..Len(gcode)) :
                   ~IsLayerMarker(gcode[n]) /\ n \notin SampleLines
            /\ Len(mk) % 2 = 0
            /\ \A i \in 1..Len(mk) :
                   IF i % 2 = 1
                   THEN /\ mk[i].op = "; Start of layer"
                        /\ mk[i + 1].op = "; End of layer"
                        /\ mk[i + 1].k = mk[i].k
                        /\ i + 2 <= Len(mk) => mk[i].k < mk[i + 2].k
                   ELSE mk[i].op = "; End of layer"
            /\ { mk[i].k : i \in 1..Len(mk) } = { k + 1 : k \in DOMAIN curves_by_layer }
            /\ body # << >> =>
                   /\ body[1].op = "; Start of layer"
                   /\ body[Len(body)].op = "; End of layer"
            /\ \A p \in 1..Len(body) :
                   ~IsLayerMarker(body[p]) =>
                       /\ body[p].op \in {"G0", "G1", "G1 Z ; Retract"}
                       /\ LET before == { q \in 1..(p - 1) : IsLayerMarker(body[q]) }
                              open   == CHOOSE q \in before : \A r \in before : r <= q
                          IN  /\ before # {}
                              /\ body[open].op = "; Start of layer"
                              /\ body[open].k = body[p].k

\* a returned program with the blocks of two layers that are not
\* neighbours, each with motion lines and a retraction
C10_Witness ==
    /\ gpc = "done"
    /\ DOMAIN curves_by_layer = {0, 2}
    /\ retract
    /\ \E n, m \in ExtrusionLines : gcode[n].k = 1 /\ gcode[m].k = 3

\* the sum of the increments of the G1 lines emitted up to line n
RECURSIVE IncrementsUpTo(_)
IncrementsUpTo(n) ==
    IF n = 0 THEN 0
    ELSE IncrementsUpTo(n - 1) + (IF gcode[n].op = "G1" THEN gcode[n].inc ELSE 0)

\* the lines of the program from place a to place b that read op
Reads(a, b, op) == { n \in a..b : gcode[n].op = op }

\* C11: a returned program in absolute mode declares M82 (and not M83), has
\* G92 E0.0000 in its start block and in its end block, and the E value of
\* every G1 line is the total of the increments of all G1 lines up to and
\* including it; in relative mode it declares M83 (and not M82), has no G92
\* line, and the E value of every G1 line is that line's own increment.
C11_ExtrusionMode ==
    gpc = "done" =>
        LET n0 == Len(StartBlock)
            n1 == Len(gcode) - Len(EndBlock)
            N  == Len(gcode)
        IN  IF e_absolute
            THEN /\ Reads(1, n0, "M82 ;Absolute") # {}
                 /\ Reads(1, N, "M83 ;Relative") = {}
                 /\ Reads(1, n0, "G92 E0.0000") # {}
                 /\ Reads(n1 + 1, N, "G92 E0.0000") # {}
                 /\ \A n \in ExtrusionLines : gcode[n].E = FormatE(IncrementsUpTo(n))
            ELSE /\ Reads(1, n0, "M83 ;Relative") # {}
                 /\ Reads(1, N, "M82 ;Absolute") = {}
                 /\ Reads(1, N, "G92 E0.0000") = {}
                 /\ \A n \in ExtrusionLines : gcode[n].E = FormatE(gcode[n].inc)

\* a returned absolute-mode program in which a G1 line of a second curve, in
\* a later layer, carries more than its own increment
C11_Witness ==
    /\ gpc = "done" /\ e_absolute
    /\ \E n, m \in ExtrusionLines :
          /\ gcode[n].c = 0 /\ gcode[m].c = 1 /\ gcode[n].k < gcode[m].k
          /\ gcode[n].inc > 0 /\ gcode[m].inc > 0
          /\ gcode[m].E > FormatE(gcode[m].inc)

\* the rapid travel speed of the time formula (mm/min)
RapidTravelSpeed == 12000

\* the sum of two fractions
FracAdd(a, b) == Frac(a[1] * b[2] + b[1] * a[2], a[2] * b[2])

\* the place of the motion line before place n (0 if there is none)
PrevSample(n) ==
    LET before == { m \in SampleLines : m < n }
    IN  IF before = {} THEN 0 ELSE CHOOSE m \in before : \A q \in before : q <= m

\* the distance a motion line of the program covers
Covered(n) ==
    IF PrevSample(n) = 0 THEN 0 ELSE DistanceMM(gcode[PrevSample(n)].pt, gcode[n].pt)

RECURSIVE DistanceOf(_, _)
DistanceOf(op, n) ==
    IF n = 0 THEN 0
    ELSE DistanceOf(op, n - 1) + (IF gcode[n].op = op THEN Covered(n) ELSE 0)

\* the length extruded along the curves (G1 lines) and the length travelled
\* between curves (G0 lines) in the program
ExtrusionDistance == DistanceOf("G1", Len(gcode))
TravelDistance == DistanceOf("G0", Len(gcode))

\* C12 as stated: the printing time returned with a program is
\* (extrusion distance / effective printing speed) + (travel distance /
\* rapid travel speed), the rapid travel speed a fixed constant and not the
\* printing speed.
C12_TimeEstimator ==
    gpc = "done" =>
        result.time = FracAdd(Frac(ExtrusionDistance * Len(printing_speed),
                                   Sum(printing_speed)),
                              Frac(TravelDistance, RapidTravelSpeed))

\* C13 as stated: the volume the header of a returned program reports (taken
\* before its conversion to liters and its rounding to two decimals) is the
\* sum of the increments emitted as E values: either that sum itself, or
\* that sum taken back to a volume by the area constant_denominator it was
\* divided by, so that one cross-sectional area, nozzle_diameter * layer_h *
\* flux, serves both passes.
C13_VolumeIsSumOfIncrements ==
    gpc = "done" =>
        LET reported == CHOOSE n \in 1..Len(gcode) : gcode[n].op = ";Estimated printing volume"
            volume   == gcode[reported].inc          \* unit 1 / (10 * One) mm^3
            emitted  == IncrementsUpTo(Len(gcode))    \* unit 1 / (One * constant_denominator)
        IN  \/ volume * ConstantDenominatorX100 = 1000 * emitted
            \/ volume = 10 * emitted

\* the upper end of the speed band as the component description gives it
\* ("1800 to 8000 mm/min")
DocMaxSpeed == 8000

\* C14 as stated: a run with any printing speed outside 1800..8000 mm/min is
\* rejected as a whole (no program, no line), so that validation is passed
\* only with every speed within 1800..8000.
C14_SpeedBand8000 ==
    /\ (gpc # "validate"
          /\ \E i \in 1..Len(printing_speed) :
                 printing_speed[i] < MinSpeed \/ printing_speed[i] > DocMaxSpeed)
        => (gpc = "failed" /\ result.gcode_none /\ gcode = << >>)
    /\ Passed =>
          \A i \in 1..Len(printing_speed) :
              printing_speed[i] >= MinSpeed /\ printing_speed[i] <= DocMaxSpeed

----------------------------------------------------------------------------
(***************************************************************************)
(* generate_gcode (v240811/G_Code_Generation_240811.py), the version with  *)
(* one printing speed and a flux list per layer.  It runs on the names of  *)
(* the v241001 model that it shares; printing_speed is a number here,      *)
(* printing_flux a list of percentages, and curves_by_layer holds the      *)
(* curves themselves.                                                      *)
(***************************************************************************)
\* the upper end of the speed band of line 65
MaxSpeedV240811 == 11000

\* max_z over the end points of every curve of printing_path (line 74)
MaxEndZ(path) ==
    CHOOSE z \in { path[i].e[3] : i \in 1..Len(path) } :
        \A i \in 1..Len(path) : z >= path[i].e[3]

\* num_layers = int(max_z / layer_h) + 1   (line 75)
NumLayersV240811(path, lh) == MaxEndZ(path) \div lh + 1

\* the check of line 78
FluxMismatch(n, nl) == n # 1 /\ n < nl

\* layer_index = int(curve.PointAtEnd.Z / layer_h)   (line 86)
LayerIndexV240811(c) == c.e[3] \div layer_h

\* current_flux of a layer (line 120)
CurrentFlux(layer_index) ==
    IF Len(printing_flux) = 1 THEN printing_flux[1]
    ELSE printing_flux[Min(layer_index, Len(printing_flux) - 1) + 1]

\* f"{extrusion_amount:.4f}": a whole number of millimetres in ten-thousandths
FormatE4(x) == 10000 * x

\* lines 97-111 and 160-166
StartBlockV240811 ==
    << Text(";PRINTING INFORMATION:"),
       Line(";Printing speed", 0, printing_speed, NoPoint, 0, 0 - 1, 0),
       Line(";Nozzle diameter", nozzle_diameter, 0, NoPoint, 0, 0 - 1, 0),
       Line(";Number of layers", num_layers, 0, NoPoint, 0, 0 - 1, 0),
       Line(";Layer height", layer_h, 0, NoPoint, 0, 0 - 1, 0),
       Text("; -- START GCODE --"), Text("G90"), Text("M82"), Text("G28"),
       Text("G92 E0.0000"), Text("G1 E-4.0000 F6000"),
       Line("G1 Z F12000", 0, 12000, <<0, 0, 2>>, 0, 0 - 1, 0),
       Text("; -- END OF START GCODE --") >>

EndBlockV240811 ==
    << Text("; -- END GCODE --"), Text("G92 E0.0000"), Text("G1 E-4.0000 F6000"),
       Text("G28"), Text("; -- END OF END GCODE --") >>

\* lines 133-140: the G1 lines of one curve (none for its first point)
CurveLinesV240811(layer_index, pts) ==
    [j \in 1..(Len(pts) - 1) |->
        Line("G1", layer_index + 1, printing_speed, pts[j + 1],
             FormatE4(extrusion_amount + Cumulative(pts, j + 1) * CurrentFlux(layer_index)),
             0 - 1,
             DistanceMM(pts[j], pts[j + 1]) * CurrentFlux(layer_index))]

SpeedsV240811 == { 1799, 3000, 11000, 11001 }
FluxListsV240811 == { <<100>>, <<100, 90>>, <<100, 90, 80>> }

InitV240811 ==
    /\ OptIdle
    /\ printing_path \in SeqsUpTo(GenCurves, MaxCurves)
    /\ nozzle_diameter \in {2, 4}
    /\ layer_h \in {1, 2}
    /\ printing_speed \in SpeedsV240811
    /\ printing_flux \in FluxListsV240811
    /\ retract \in BOOLEAN
    /\ m1_flux = << >> /\ e_absolute = FALSE /\ flux_mode = 0
    /\ m2_flux_start = << >> /\ m2_flux_end = << >>
    /\ all_curves = << >> /\ num_layers = 0 /\ min_z = 0
    /\ speed_mode_detail = "" /\ flux_mode_detail = ""
    /\ flux_start = << >> /\ flux_end = << >>
    /\ curves_by_layer = << >>
    /\ total_extruded_volume = 0 /\ total_printing_distance = 0
    /\ total_extrusion_distance = 0 /\ total_travel_distance = 0
    /\ previous_point = NoPoint /\ gcode = << >> /\ printing_points = << >>
    /\ extrusion_amount = 0 /\ current_speed = 0
    /\ layer_pos = 0 /\ curve_pos = 0 /\ points = << >>
    /\ result = [returned |-> FALSE, gcode_none |-> TRUE, layers |-> NoLayers,
                 time |-> NoTime]
    /\ gpc = "validate"

\* the names of the v241001 model that v240811 has no use for
restV240811 == <<optVars, m1_flux, e_absolute, flux_mode, m2_flux_start, m2_flux_end,
                 all_curves, min_z, speed_mode_detail, flux_mode_detail,
                 flux_start, flux_end, total_extruded_volume,
                 total_printing_distance, current_speed>>

inputsV240811 == <<printing_path, nozzle_diameter, printing_speed, printing_flux,
                   layer_h, retract>>

\* Lines 64-80.  A speed outside the band returns five None; max() of an
\* empty printing_path raises ValueError; a flux list that fails the check
\* of line 78 returns None with num_layers in the fifth slot.
ValidateV240811 ==
    /\ gpc = "validate"
    /\ IF printing_speed < MinSpeed \/ printing_speed > MaxSpeedV240811
       THEN /\ result' = [returned |-> TRUE, gcode_none |-> TRUE, layers |-> NoLayers,
                          time |-> NoTime]
            /\ gpc' = "failed"
            /\ UNCHANGED num_layers
       ELSE IF printing_path = << >>
       THEN /\ gpc' = "crashed"
            /\ UNCHANGED <<result, num_layers>>
       ELSE IF FluxMismatch(Len(printing_flux), NumLayersV240811(printing_path, layer_h))
       THEN /\ num_layers' = NumLayersV240811(printing_path, layer_h)
            /\ result' = [returned |-> TRUE, gcode_none |-> TRUE,
                          layers |-> NumLayersV240811(printing_path, layer_h),
                          time |-> NoTime]
            /\ gpc' = "failed"
       ELSE /\ num_layers' = NumLayersV240811(printing_path, layer_h)
            /\ gpc' = "group"
            /\ UNCHANGED result
    /\ UNCHANGED <<restV240811, inputsV240811, curves_by_layer, gcode, printing_points,
                   total_extrusion_distance, total_travel_distance, extrusion_amount,
                   previous_point, points, layer_pos, curve_pos>>

\* Lines 82-114: the valid curves grouped by layer, the start block.
GroupV240811 ==
    /\ gpc = "group"
    /\ curves_by_layer' =
           [k \in { LayerIndexV240811(printing_path[i]) :
                       i \in { j \in 1..Len(printing_path) : Usable(printing_path[j]) } }
               |-> SelectSeq(printing_path,
                             LAMBDA c : Usable(c) /\ LayerIndexV240811(c) = k)]
    /\ gcode' = StartBlockV240811
    /\ printing_points' = << >>
    /\ total_extrusion_distance' = 0
    /\ total_travel_distance' = 0
    /\ extrusion_amount' = 0
    /\ previous_point' = NoPoint
    /\ layer_pos' = 1
    /\ gpc' = "layer"
    /\ UNCHANGED <<restV240811, inputsV240811, num_layers, points, curve_pos, result>>

\* Lines 117-120: the next layer in ascending order is opened.
LayerOpenV240811 ==
    /\ gpc = "layer"
    /\ layer_pos <= Len(LayerKeys)
    /\ gcode' = Append(gcode, Line("; Start of layer", LayerKeys[layer_pos] + 1, 0,
                                   NoPoint, 0, 0 - 1, 0))
    /\ curve_pos' = 1
    /\ gpc' = "curve"
    /\ UNCHANGED <<restV240811, inputsV240811, num_layers, curves_by_layer,
                   printing_points, total_extrusion_distance, total_travel_distance,
                   extrusion_amount, previous_point, points, layer_pos, result>>

\* Lines 122-147: one curve of the layer; a curve whose division failed is
\* skipped.
EmitCurveV240811 ==
    /\ gpc = "curve"
    /\ curve_pos <= Len(curves_by_layer[LayerKeys[layer_pos]])
    /\ LET layer_index == LayerKeys[layer_pos]
           curve == curves_by_layer[layer_index][curve_pos]
           d     == DivideByLength(curve, nozzle_diameter \div 2)
           pts   == SamplePoints(curve, d.params)
       IN  IF d.none
           THEN UNCHANGED <<gcode, printing_points, total_extrusion_distance,
                            total_travel_distance, extrusion_amount, previous_point,
                            points>>
           ELSE /\ points' = pts
                /\ gcode' = gcode \o CurveLinesV240811(layer_index, pts)
                /\ printing_points' = printing_points \o Tail(pts)
                /\ total_extrusion_distance' =
                       total_extrusion_distance + Cumulative(pts, Len(pts))
                /\ extrusion_amount' =
                       extrusion_amount + Cumulative(pts, Len(pts)) * CurrentFlux(layer_index)
                /\ total_travel_distance' =
                       IF previous_point # NoPoint
                       THEN total_travel_distance + DistanceMM(previous_point, pts[1])
                       ELSE total_travel_distance
                /\ previous_point' = pts[Len(pts)]
    /\ curve_pos' = curve_pos + 1
    /\ UNCHANGED <<restV240811, inputsV240811, num_layers, curves_by_layer,
                   layer_pos, result, gpc>>

\* Lines 149-157: the layer is closed.  With retract set, points[-1] is read:
\* before any curve was divided the name points is unbound and the call
\* ends in UnboundLocalError; otherwise the retraction line is emitted and
\* previous_point, which is that same point object, is lifted.
LayerCloseV240811 ==
    /\ gpc = "curve"
    /\ curve_pos > Len(curves_by_layer[LayerKeys[layer_pos]])
    /\ LET layer_index == LayerKeys[layer_pos]
           closing == Line("; End of layer", layer_index + 1, 0, NoPoint, 0, 0 - 1, 0)
       IN  IF retract /\ points = << >>
           THEN /\ gpc' = "crashed"
                /\ UNCHANGED <<gcode, previous_point, points, printing_points, layer_pos>>
           ELSE IF retract
           THEN /\ gcode' = gcode \o
                       << Line("G1 Z ; Retract", layer_index + 1, printing_speed,
                               Lift(points[Len(points)]), 0, 0 - 1, 0),
                          closing >>
                /\ previous_point' = Lift(previous_point)
                /\ points' = [points EXCEPT ![Len(points)] = Lift(previous_point)]
                /\ printing_points' =
                       [printing_points EXCEPT ![Len(printing_points)] = Lift(previous_point)]
                /\ layer_pos' = layer_pos + 1
                /\ gpc' = "layer"
           ELSE /\ gcode' = Append(gcode, closing)
                /\ layer_pos' = layer_pos + 1
                /\ gpc' = "layer"
                /\ UNCHANGED <<previous_point, points, printing_points>>
    /\ UNCHANGED <<restV240811, inputsV240811, num_layers, curves_by_layer,
                   total_extrusion_distance, total_travel_distance, extrusion_amount,
                   curve_pos, result>>

\* Lines 159-180: the end block, the printing time, the return.
EmitEndBlockV240811 ==
    /\ gpc = "layer"
    /\ layer_pos > Len(LayerKeys)
    /\ gcode' = gcode \o EndBlockV240811
    /\ result' = [returned |-> TRUE, gcode_none |-> FALSE, layers |-> num_layers,
                  time |-> IF total_extrusion_distance + total_travel_distance # 0
                           THEN Frac(total_extrusion_distance + total_travel_distance,
                                     printing_speed)
                           ELSE <<0, 1>>]
    /\ gpc' = "done"
    /\ UNCHANGED <<restV240811, inputsV240811, num_layers, curves_by_layer,
                   printing_points, total_extrusion_distance, total_travel_distance,
                   extrusion_amount, previous_point, points, layer_pos, curve_pos>>

NextV240811 ==
    \/ ValidateV240811
    \/ GroupV240811
    \/ LayerOpenV240811
    \/ EmitCurveV240811
    \/ LayerCloseV240811
    \/ EmitEndBlockV240811

SpecV240811 == InitV240811 /\ [][NextV240811]_vars

\* C15 as stated: a flux list of more than one value gets past validation
\* only if it is as long as the number of layers; a list whose length is
\* neither 1 nor the number of layers, shorter or longer, is rejected with no
\* program returned.
C15_FluxListLength ==
    (gpc \notin {"validate", "crashed"}
       /\ printing_speed >= MinSpeed /\ printing_speed <= MaxSpeedV240811) =>
        LET nl == NumLayersV240811(printing_path, layer_h)
        IN  /\ (Len(printing_flux) > 1 /\ gpc # "failed") => Len(printing_flux) = nl
            /\ Len(printing_flux) \notin {1, nl} =>
                  /\ gpc = "failed"
                  /\ result.returned /\ result.gcode_none
                  /\ gcode = << >>

----------------------------------------------------------------------------
\* min(distance to the start, distance to the end) of curve c from ref
MinDist(ref, c) == Min(DistanceTo(ref, c.s), DistanceTo(ref, c.e))

\* the list of the layer that sort_curves_nearest_neighbor is working on
CurrentLayer == layers[SortedKeys(DOMAIN layers)[Len(sorted_layers) + 1]]

\* the reference point of the n-th pick of the running call
RefOf(n) == IF n = 1 THEN layer_start ELSE sorted_curves[n - 1].e

\* the places in the layer's list of the curves not yet visited before the
\* n-th pick (pop keeps their order), and the place of the curve picked n-th
Candidates(n) ==
    { i \in 1..Len(CurrentLayer) :
        \A j \in 1..(n - 1) : sorted_curves[j].id # CurrentLayer[i].id }
PickOf(n) == CHOOSE i \in 1..Len(CurrentLayer) : CurrentLayer[i].id = sorted_curves[n].id

\* C16: at every step of sort_curves_nearest_neighbor the curve appended is
\* a not-yet-visited curve of the layer whose min(distance to start,
\* distance to end) from the reference point is the smallest over all
\* not-yet-visited curves, and every not-yet-visited curve before it in the
\* list is strictly farther; the reference point then moves to its end.
C16_GreedyStep ==
    opc = "nn" =>
        /\ current_point = sorted_curves[Len(sorted_curves)].e
        /\ \A n \in 1..Len(sorted_curves) :
              /\ PickOf(n) \in Candidates(n)
              /\ \A i \in Candidates(n) :
                    /\ MinDist(RefOf(n), CurrentLayer[i])
                          >= MinDist(RefOf(n), CurrentLayer[PickOf(n)])
                    /\ i < PickOf(n) =>
                          MinDist(RefOf(n), CurrentLayer[i])
                             > MinDist(RefOf(n), CurrentLayer[PickOf(n)])

\* a pick made among three curves, two of them tied for the smallest
\* distance and a farther one listed before them; and a later pick made
\* from the end of the curve picked before it
C16_Witness ==
    /\ opc = "nn"
    /\ Len(sorted_curves) >= 2
    /\ RefOf(2) # layer_start
    /\ \E i, j \in Candidates(1) :
          /\ i < PickOf(1) /\ j > PickOf(1)
          /\ MinDist(RefOf(1), CurrentLayer[j]) = MinDist(RefOf(1), CurrentLayer[PickOf(1)])

\* the end point of the last curve of the tour stored last
EndOfLastTour ==
    LET t == sorted_layers[Len(sorted_layers)].tour IN t[Len(t)].e

\* C17: the layers are sorted, stored and concatenated in ascending order of
\* their Z key; the sort of the first layer starts from the start point
\* given to the script, the sort of every later layer from the end point of
\* the last curve of the tour of the layer processed before it.
C17_LayerChaining ==
    /\ \A k \in 1..Len(sorted_layers) :
          /\ sorted_layers[k].key = SortedKeys(DOMAIN layers)[k]
          /\ k > 1 => sorted_layers[k - 1].key < sorted_layers[k].key
          /\ Ids(sorted_layers[k].tour) = Ids(layers[sorted_layers[k].key])
    /\ opc = "nn" =>
          IF Len(sorted_layers) = 0
          THEN layer_start = start_point
          ELSE layer_start = EndOfLastTour
    /\ (opc = "layer" /\ Len(sorted_layers) > 0) => start_point = EndOfLastTour
    /\ opc = "done" =>
          /\ optimized_path = OptimizePath(sorted_layers)
          /\ \A i, j \in 1..Len(optimized_path) :
                i < j => LayerKey(optimized_path[i]) <= LayerKey(optimized_path[j])
          /\ \A k \in 2..Len(sorted_layers) :
                LET prev  == sorted_layers[k - 1].tour
                    ref   == prev[Len(prev)].e
                    first == sorted_layers[k].tour[1]
                IN  \A i \in 1..Len(layers[sorted_layers[k].key]) :
                        MinDist(ref, first) <= MinDist(ref, layers[sorted_layers[k].key][i])

\* the sort of a later layer is under way, begun from the end of the tour
\* before it, which is none of the start points the script can be given
C17_Witness ==
    /\ opc = "nn"
    /\ Len(sorted_layers) >= 1
    /\ layer_start = EndOfLastTour
    /\ layer_start \notin OptStarts
    /\ Len(CurrentLayer) >= 2

----------------------------------------------------------------------------
\* C18 as stated: in the sample point list of a curve no interior sample is
\* the curve's start point or its end point, so the list holds each of the
\* two once, and no segment between consecutive samples has length zero; no
\* G1 line of the program covers a zero distance.
C18_NoRepeatedEndpoint ==
    /\ JustSampled =>
          /\ \A i \in 2..(Len(points) - 1) :
                points[i] # LastCurve.s /\ points[i] # LastCurve.e
          /\ \A i \in 2..Len(points) : DistanceMM(points[i - 1], points[i]) > 0
    /\ \A n \in ExtrusionLines : Covered(n) > 0

----------------------------------------------------------------------------
\* the places of the opening and the closing marker of layer number k, and
\* of the retraction lines and the motion lines between them
OpenOf(k)  == CHOOSE n \in 1..Len(gcode) : gcode[n].op = "; Start of layer" /\ gcode[n].k = k
CloseOf(k) == CHOOSE n \in 1..Len(gcode) : gcode[n].op = "; End of layer" /\ gcode[n].k = k
RetractionsIn(k) == { n \in OpenOf(k)..CloseOf(k) : gcode[n].op = "G1 Z ; Retract" }
SamplesIn(k) == { n \in OpenOf(k)..CloseOf(k) : n \in SampleLines }
LastSampleIn(k) == CHOOSE n \in SamplesIn(k) : \A m \in SamplesIn(k) : m <= n

\* C19 as stated: with retract set, every layer block of a returned program
\* has exactly one retraction line, placed after all motion lines of the
\* layer and immediately before the closing marker, whose Z is the Z of the
\* last sample emitted in the layer plus layer_h and whose feed rate is the
\* one last used in the layer; with retract not set, no layer block has a
\* retraction line.
C19_Retraction ==
    gpc = "done" =>
        \A k \in { j + 1 : j \in DOMAIN curves_by_layer } :
            IF retract
            THEN /\ RetractionsIn(k) = { CloseOf(k) - 1 }
                 /\ SamplesIn(k) # {}
                 /\ LastSampleIn(k) < CloseOf(k) - 1
                 /\ gcode[CloseOf(k) - 1].pt[3] = gcode[LastSampleIn(k)].pt[3] + layer_h
                 /\ gcode[CloseOf(k) - 1].F = gcode[LastSampleIn(k)].F
            ELSE RetractionsIn(k) = {}

\* C20 as stated: in a run that passes validation the cursor previous_point
\* is never read while unset: the retraction step at the end of a layer is
\* reached only with the cursor set by a curve, also when curves of the
\* first layer were skipped, and the call never ends in the error that a
\* read of the unset cursor raises.
C20_CursorSetBeforeRead ==
    Passed =>
        /\ gpc # "crashed"
        /\ (gpc = "curve" /\ retract
              /\ curve_pos > Len(curves_by_layer[LayerKeys[layer_pos]]))
           => previous_point # NoPoint

----------------------------------------------------------------------------
\* the scope a list of length n is given: global before per layer before
\* per curve
ByPrecedence(n) ==
    IF n = 1 THEN "global"
    ELSE IF n = num_layers THEN "per_layer"
    ELSE IF n = Len(all_curves) THEN "per_curve"
    ELSE "none"

\* C21: after validation the scope of the speed list, and of the flux list
\* in constant mode, is decided by the list's length alone, global before
\* per layer before per curve; with as many layers as valid curves (more
\* than one) a list of that length is per layer, and every line of a curve
\* carries the value at the curve's layer index, whatever the curve's
\* position in the input.
C21_ScopePrecedence ==
    Passed =>
        /\ speed_mode_detail = ByPrecedence(Len(printing_speed))
        /\ flux_mode = 1 => flux_mode_detail = ByPrecedence(Len(m1_flux))
        /\ (num_layers = Len(all_curves) /\ num_layers > 1) =>
              /\ Len(printing_speed) = num_layers =>
                    /\ speed_mode_detail = "per_layer"
                    /\ \A n \in SampleLines : gcode[n].F = printing_speed[gcode[n].k]
              /\ (flux_mode = 1 /\ Len(m1_flux) = num_layers) =>
                    /\ flux_mode_detail = "per_layer"
                    /\ \A n \in ExtrusionLines : gcode[n].flux = m1_flux[gcode[n].k]

\* a returned program for two curves in two layers, listed against the order
\* of their layers, with a speed list and a flux list of two values: a line
\* carries the values at its layer index, which are not those at its curve's
\* position
C21_Witness ==
    /\ gpc = "done"
    /\ flux_mode = 1
    /\ num_layers = 2 /\ Len(all_curves) = 2
    /\ Len(printing_speed) = 2 /\ Len(m1_flux) = 2
    /\ \E n \in ExtrusionLines :
          /\ gcode[n].k # gcode[n].c + 1
          /\ gcode[n].F = printing_speed[gcode[n].k]
          /\ gcode[n].F # printing_speed[gcode[n].c + 1]
          /\ gcode[n].flux = m1_flux[gcode[n].k]
          /\ gcode[n].flux # m1_flux[gcode[n].c + 1]
====
